---- MODULE Spec2Model ----
(***************************************************************************)
(* Model of the BLE-LoRA-Adapter repeater: the LoRa receive dispatcher     *)
(* (handle_message), the receive worker (recv_task) and its event-group    *)
(* hand-off with the radio interrupt, the heart-rate forwarding callback   *)
(* (scan_manager.on_data) and tryTransmit.                                 *)
(*                                                                         *)
(* Bytes are naturals 0..255, frames are sequences of bytes.  A location   *)
(* of a flow named after a radio-driver call means "inside that call";     *)
(* the step that leaves the location is the call returning.                *)
(***************************************************************************)
EXTENDS Integers, Sequences, FiniteSets, TLC

VARIABLES
    name_map_key,  \* static name_map_key (app_main.cpp:143)
    nvs_key,       \* durable store: [has, key]
    target,        \* ScanManager target address: [has, addr]
    device,        \* ScanManager cached device: [has, addr, name]
    evtBit,        \* RecvEvt bit of evt_grp
    radio,         \* mode of the LLCC68: "standby" | "rx" | "tx"
    pc,            \* pc[f], f \in Flows: location of each flow
    txbuf,         \* txbuf[f]: payload handed to tryTransmit by flow f
    txerr,         \* txerr[f]: result of rf.transmit in the current tryTransmit
    txlog,         \* txlog[f]: driver calls completed by the current tryTransmit
    rdata,         \* recv_task: bytes written into data[] by rf.receive
    hmMagic,       \* handle_message: the byte read as data[0] (-1: none read)
    hmKey0,        \* name_map_key when handle_message was entered
    hmDev,         \* what get_device() returned to handle_message
    hmNvs0,        \* durable store when handle_message was entered
    hmSent,        \* frames passed to callbacks.send by this handle_message
    sigCount,      \* number of interrupts raised
    drainCount,    \* number of rf.receive calls made by the worker
    handleCount,   \* number of handle_message calls made by the worker
    sigsSinceWake, \* interrupts raised since the worker last woke
    lastSetKey,    \* key of the last well-formed SetNameMapKey handled: [has, key]
    cpc,           \* codec / dispatcher exercise: its stage ("off" while the node runs)
    cIn,           \* codec / dispatcher exercise: the input
    cOut,          \* codec / dispatcher exercise: the results so far
    bpc,           \* app_main: the step it is about to take ("running": it has returned)
    nvs_addr,      \* durable store: the target address, [has, addr]
    has_addr,      \* app_main: has_addr
    boot_addr,     \* app_main: addr
    halt,          \* the boot step whose failure stopped the process ("none")
    bootErr,       \* the boot steps that reported an error
    setTargetCalled, \* app_main called scan_manager.set_target_addr
    fwdCall,       \* on_data up to its first radio call: [data, key, reads]
    scanFresh      \* a scan cycle has run since the target last changed

vars == <<name_map_key, nvs_key, target, device, evtBit, radio, pc, txbuf,
          txerr, txlog, rdata, hmMagic, hmKey0, hmDev, hmNvs0, hmSent,
          sigCount, drainCount, handleCount, sigsSinceWake, lastSetKey,
          cpc, cIn, cOut,
          bpc, nvs_addr, has_addr, boot_addr, halt, bootErr, setTargetCalled,
          fwdCall, scanFresh>>

(***************************************************************************)
(* Bounds and program constants                                            *)
(***************************************************************************)
MaxSignals == 2

hr_data_magic == 99
query_device_by_mac_magic == 55
query_device_by_mac_response_magic == 71
set_name_map_key_magic == 54
BLE_ADDR_SIZE == 6
RESP_BUF_SIZE == 64
HR_BUF_SIZE == 16
HR_CAP == 255

Flows == {"recv", "fwd"}

broadcast_addr == <<255, 255, 255, 255, 255, 255>>
MY_ADDR == <<1, 2, 3, 4, 5, 6>>
OTHER_ADDR == <<9, 9, 9, 9, 9, 9>>
DEV_ADDR == <<10, 11, 12, 13, 14, 15>>

NoDevice == [has |-> FALSE, addr |-> <<>>, name |-> <<>>]
NoTarget == [has |-> FALSE, addr |-> <<>>]
NoKey == [has |-> FALSE, key |-> 0]
\* app_nvs::addr_t addr{0}
ZeroAddr == <<0, 0, 0, 0, 0, 0>>
\* on_data is not between its entry and its first radio call
NoCall == [data |-> <<>>, key |-> 0, reads |-> {}]

KeySamples == {0, 5, 255}
NameSamples == {<<72, 82>>}

(***************************************************************************)
(* Wire codec                                                              *)
(***************************************************************************)
Take(s, n) == SubSeq(s, 1, n)

hr_data_size_needed == 3

\* variant: key and hr are written in the wrong order
hr_data_marshal_swapped(data, buffer_size) ==
    IF buffer_size < hr_data_size_needed
    THEN <<>>
    ELSE <<hr_data_magic, data.hr, data.key>>

hr_data_marshal(data, buffer_size) ==
    IF buffer_size < hr_data_size_needed
    THEN <<>>
    ELSE <<hr_data_magic, data.key, data.hr>>

\* variant: the size check is off by one and the missing byte reads as 0
hr_data_unmarshal_short(buffer) ==
    IF Len(buffer) < hr_data_size_needed - 1
    THEN [ok |-> FALSE]
    ELSE IF buffer[1] # hr_data_magic
         THEN [ok |-> FALSE]
         ELSE [ok |-> TRUE, key |-> buffer[2],
               hr |-> IF Len(buffer) >= 3 THEN buffer[3] ELSE 0]

hr_data_unmarshal(buffer) ==
    IF Len(buffer) < hr_data_size_needed
    THEN [ok |-> FALSE]
    ELSE IF buffer[1] # hr_data_magic
         THEN [ok |-> FALSE]
         ELSE [ok |-> TRUE, key |-> buffer[2], hr |-> buffer[3]]

query_device_by_mac_unmarshal(buffer) ==
    IF Len(buffer) < 1 + BLE_ADDR_SIZE
    THEN [ok |-> FALSE]
    ELSE IF buffer[1] # query_device_by_mac_magic
         THEN [ok |-> FALSE]
         ELSE [ok |-> TRUE, addr |-> SubSeq(buffer, 2, 1 + BLE_ADDR_SIZE)]

set_name_map_key_unmarshal(buffer) ==
    IF Len(buffer) < 2
    THEN [ok |-> FALSE]
    ELSE IF buffer[1] # set_name_map_key_magic
         THEN [ok |-> FALSE]
         ELSE [ok |-> TRUE, key |-> buffer[2]]

query_device_by_mac_response_size_needed(resp) ==
    1 + BLE_ADDR_SIZE + 1 + 1
      + (IF resp.device.has THEN BLE_ADDR_SIZE + 1 + Len(resp.device.name) ELSE 0)

query_device_by_mac_response_marshal(resp, buffer_size) ==
    IF buffer_size < query_device_by_mac_response_size_needed(resp)
    THEN <<>>
    ELSE <<query_device_by_mac_response_magic>> \o resp.repeater_addr \o <<resp.key>>
           \o (IF resp.device.has
               THEN <<1>> \o resp.device.addr \o <<Len(resp.device.name)>>
                      \o resp.device.name
               ELSE <<0>>)

query_device_by_mac_response_unmarshal(buffer) ==
    LET base == 1 + BLE_ADDR_SIZE + 1 + 1 IN
    IF Len(buffer) < base
    THEN [ok |-> FALSE]
    ELSE IF buffer[1] # query_device_by_mac_response_magic
    THEN [ok |-> FALSE]
    ELSE LET addr == SubSeq(buffer, 2, 1 + BLE_ADDR_SIZE)
             key  == buffer[2 + BLE_ADDR_SIZE]
             flag == buffer[3 + BLE_ADDR_SIZE]
         IN  IF flag = 0
             THEN [ok |-> TRUE, repeater_addr |-> addr, key |-> key, device |-> NoDevice]
             ELSE IF Len(buffer) < base + BLE_ADDR_SIZE + 1
             THEN [ok |-> FALSE]
             ELSE LET daddr == SubSeq(buffer, base + 1, base + BLE_ADDR_SIZE)
                      nlen  == buffer[base + BLE_ADDR_SIZE + 1]
                  IN  IF Len(buffer) < base + BLE_ADDR_SIZE + 1 + nlen
                      THEN [ok |-> FALSE]
                      ELSE [ok |-> TRUE, repeater_addr |-> addr, key |-> key,
                            device |-> [has |-> TRUE, addr |-> daddr,
                                        name |-> SubSeq(buffer, base + BLE_ADDR_SIZE + 2,
                                                        base + BLE_ADDR_SIZE + 1 + nlen)]]

query_device_by_mac_marshal(data, buffer_size) ==
    IF buffer_size < 1 + BLE_ADDR_SIZE
    THEN <<>>
    ELSE <<query_device_by_mac_magic>> \o data.addr

set_name_map_key_marshal(data, buffer_size) ==
    IF buffer_size < 2
    THEN <<>>
    ELSE <<set_name_map_key_magic, data.key>>

\* hr_lora_msg::t: [kind, val], val being the t of that kind
Tagged(kind, val) == [kind |-> kind, val |-> val]

hr_lora_msg_marshal(data, buffer_size) ==
    CASE data.kind = "hr_data" -> hr_data_marshal(data.val, buffer_size)
      [] data.kind = "query_device_by_mac" ->
             query_device_by_mac_marshal(data.val, buffer_size)
      [] data.kind = "query_device_by_mac_response" ->
             query_device_by_mac_response_marshal(data.val, buffer_size)
      [] data.kind = "set_name_map_key" ->
             set_name_map_key_marshal(data.val, buffer_size)

\* the result of one kind's unmarshal wrapped into the variant
Wrap(kind, res) ==
    IF res.ok THEN [ok |-> TRUE, kind |-> kind, val |-> res] ELSE [ok |-> FALSE]

hr_lora_msg_unmarshal(buffer) ==
    IF Len(buffer) < 1
    THEN [ok |-> FALSE]
    ELSE LET magic == buffer[1] IN
         CASE magic = hr_data_magic -> Wrap("hr_data", hr_data_unmarshal(buffer))
           [] magic = query_device_by_mac_magic ->
                  Wrap("query_device_by_mac", query_device_by_mac_unmarshal(buffer))
           [] magic = query_device_by_mac_response_magic ->
                  Wrap("query_device_by_mac_response",
                       query_device_by_mac_response_unmarshal(buffer))
           [] magic = set_name_map_key_magic ->
                  Wrap("set_name_map_key", set_name_map_key_unmarshal(buffer))
           [] OTHER -> [ok |-> FALSE]

(***************************************************************************)
(* Inputs                                                                  *)
(***************************************************************************)
FrameSamples ==
    { <<>>,
      <<query_device_by_mac_magic>> \o broadcast_addr,
      <<query_device_by_mac_magic>> \o MY_ADDR,
      <<query_device_by_mac_magic>> \o OTHER_ADDR,
      <<query_device_by_mac_magic>> \o Take(broadcast_addr, BLE_ADDR_SIZE - 1),
      <<set_name_map_key_magic, 5>>,
      <<set_name_map_key_magic, 255>>,
      <<set_name_map_key_magic>>,
      <<hr_data_magic, 5, 72>>,
      <<query_device_by_mac_response_magic>> \o OTHER_ADDR \o <<5, 0>>,
      <<0>> }

\* values an uninitialized data[0] may hold
MagicSamples ==
    { hr_data_magic, query_device_by_mac_magic,
      query_device_by_mac_response_magic, set_name_map_key_magic, 0 }

PayloadSamples ==
    { <<>>, <<0>>, <<0, 72>>, <<1, 72, 0>>, <<1, 0, 1>>, <<1, 72>> }

\* values a byte read past the end of the payload may hold
JunkSamples == {0, 1}

TxResults == {"ok", "timeout", "error"}

Byte == 0..255

Prefixes(f) == {Take(f, n) : n \in 0..Len(f)}

\* buffers handed to hr_lora_msg::unmarshal: every truncation of these frames
FullFrames ==
    { <<hr_data_magic, 5, 72>>,
      <<hr_data_magic, 5, 72, 1>>,
      <<query_device_by_mac_magic>> \o MY_ADDR \o <<0>>,
      <<query_device_by_mac_response_magic>> \o MY_ADDR \o <<5, 0>>,
      <<query_device_by_mac_response_magic>> \o MY_ADDR \o <<5, 1>> \o DEV_ADDR
          \o <<2, 72, 82>>,
      <<set_name_map_key_magic, 5, 9>>,
      <<0, 1, 2>>,
      <<255, 99>> }

BufSamples == UNION {Prefixes(f) : f \in FullFrames}

Callbacks == {"send", "get_device", "set_name_map_key", "get_name_map_key"}

(***************************************************************************)
(* handle_message                                                          *)
(***************************************************************************)
\* what one invocation does: frames passed to callbacks.send, the in-memory
\* key and the durable store afterwards, and what get_device() returned
Effect(sent, key, nvs, dev) == [sent |-> sent, key |-> key, nvs |-> nvs, dev |-> dev]

\* variant: the broadcast comparison is left out
IsForMeOwnOnly(addr) == addr = MY_ADDR

\* variant: the `if (!eq) break;` is left out
IsForMeAlways(addr) == TRUE

IsForMe(addr) == addr = broadcast_addr \/ addr = MY_ADDR

\* lines 82-89: the device is copied into a local that is never stored in resp
RespDevice(dev) == NoDevice

QueryBranch(data, key, nvs, dev) ==
    LET r == query_device_by_mac_unmarshal(data) IN
    IF ~r.ok
    THEN Effect(<<>>, key, nvs, NoDevice)
    ELSE IF ~IsForMe(r.addr)
    THEN Effect(<<>>, key, nvs, NoDevice)
    ELSE LET resp == [repeater_addr |-> MY_ADDR, key |-> key, device |-> RespDevice(dev)]
             buf  == query_device_by_mac_response_marshal(resp, RESP_BUF_SIZE)
         IN  IF buf = <<>>
             THEN Effect(<<>>, key, nvs, dev)
             ELSE Effect(<<buf>>, key, nvs, dev)

\* variant: app_nvs::set_name_map_key is not called
SetKeyBranchNoPersist(data, key, nvs, dev) ==
    LET r == set_name_map_key_unmarshal(data) IN
    IF ~r.ok
    THEN Effect(<<>>, key, nvs, NoDevice)
    ELSE Effect(<<>>, r.key, nvs, NoDevice)

\* variant: the `if (!r) break;` is left out and the key byte is used anyway
SetKeyBranchUnchecked(data, key, nvs, dev) ==
    LET k == IF Len(data) >= 2 THEN data[2] ELSE (key + 1) % 256 IN
    Effect(<<>>, k, [has |-> TRUE, key |-> k], NoDevice)

SetKeyBranch(data, key, nvs, dev) ==
    LET r == set_name_map_key_unmarshal(data) IN
    IF ~r.ok
    THEN Effect(<<>>, key, nvs, NoDevice)
    ELSE Effect(<<>>, r.key, [has |-> TRUE, key |-> r.key], NoDevice)

\* variant: the `return` is missing and the case runs on into a key update
PeerBranchFallthrough(data, key, nvs, dev) ==
    LET k == IF Len(data) >= 2 THEN data[2] ELSE (key + 1) % 256 IN
    Effect(<<>>, k, [has |-> TRUE, key |-> k], NoDevice)

PeerBranch(data, key, nvs, dev) == Effect(<<>>, key, nvs, NoDevice)

UnknownBranch(data, key, nvs, dev) == Effect(<<>>, key, nvs, NoDevice)

\* magic is the byte read as data[0]: data[1] here when size >= 1
handle_message(data, magic, key, nvs, dev) ==
    CASE magic = query_device_by_mac_magic -> QueryBranch(data, key, nvs, dev)
      [] magic = set_name_map_key_magic -> SetKeyBranch(data, key, nvs, dev)
      [] magic \in {hr_data_magic, query_device_by_mac_response_magic} ->
             PeerBranch(data, key, nvs, dev)
      [] OTHER -> UnknownBranch(data, key, nvs, dev)

\* variant: only the send callback is tested
is_cb_empty_send_only(cbs) == "send" \notin cbs

\* cbs: the callbacks that are not empty
is_cb_empty(cbs) ==
    \/ "send" \notin cbs
    \/ "get_device" \notin cbs
    \/ "set_name_map_key" \notin cbs
    \/ "get_name_map_key" \notin cbs

\* the callbacks one invocation calls, in the order of the code
CallbacksInvoked(data, magic, dev) ==
    CASE magic = query_device_by_mac_magic ->
             LET r == query_device_by_mac_unmarshal(data) IN
             IF r.ok /\ IsForMe(r.addr)
             THEN {"get_name_map_key", "get_device"}
                    \cup (IF QueryBranch(data, 0, NoKey, dev).sent # <<>>
                          THEN {"send"} ELSE {})
             ELSE {}
      [] magic = set_name_map_key_magic ->
             IF set_name_map_key_unmarshal(data).ok THEN {"set_name_map_key"} ELSE {}
      [] OTHER -> {}

\* handle_message with its callbacks argument; magic = -1: data[0] was not read
handle_message_cb(cbs, data, magic, key, nvs, dev) ==
    IF is_cb_empty(cbs)
    THEN [sent |-> <<>>, key |-> key, nvs |-> nvs, dev |-> NoDevice,
          calls |-> {}, magic |-> -1]
    ELSE LET e == handle_message(data, magic, key, nvs, dev) IN
         [sent |-> e.sent, key |-> e.key, nvs |-> e.nvs, dev |-> e.dev,
          calls |-> CallbacksInvoked(data, magic, dev), magic |-> magic]

\* the static handle_message_callbacks: all four are set
handle_message_callbacks == Callbacks

(***************************************************************************)
(* Initial state: app_main has returned, having found no target address   *)
(* in the durable store and either no key or the key 5                     *)
(***************************************************************************)
Init ==
    /\ nvs_key \in {NoKey, [has |-> TRUE, key |-> 5]}
    /\ name_map_key = (IF nvs_key.has THEN nvs_key.key ELSE 0)
    /\ target = NoTarget
    /\ device = NoDevice
    /\ evtBit = FALSE
    /\ radio = "rx"
    /\ pc = [f \in Flows |-> IF f = "recv" THEN "wait" ELSE "idle"]
    /\ txbuf = [f \in Flows |-> <<>>]
    /\ txerr = [f \in Flows |-> "none"]
    /\ txlog = [f \in Flows |-> <<>>]
    /\ rdata = <<>>
    /\ hmMagic = -1
    /\ hmKey0 = 0
    /\ hmDev = NoDevice
    /\ hmNvs0 = NoKey
    /\ hmSent = <<>>
    /\ sigCount = 0
    /\ drainCount = 0
    /\ handleCount = 0
    /\ sigsSinceWake = 0
    /\ lastSetKey = NoKey
    /\ cpc = "off"
    /\ cIn = <<>>
    /\ cOut = <<>>
    /\ bpc = "running"
    /\ nvs_addr = NoTarget
    /\ has_addr = FALSE
    /\ boot_addr = ZeroAddr
    /\ halt = "none"
    /\ bootErr = {"get_addr"} \cup (IF nvs_key.has THEN {} ELSE {"get_key"})
    /\ setTargetCalled = FALSE
    /\ fwdCall = NoCall
    /\ scanFresh = TRUE

pureVars == <<cpc, cIn, cOut>>
bootVars == <<bpc, nvs_addr, has_addr, boot_addr, halt, bootErr, setTargetCalled>>
hmVars == <<hmMagic, hmKey0, hmDev, hmNvs0, hmSent>>
txVars == <<txbuf, txerr, txlog>>
cntVars == <<sigCount, drainCount, handleCount, sigsSinceWake>>
scanVars == <<target, device, scanFresh>>
keyVars == <<name_map_key, nvs_key, lastSetKey>>

(***************************************************************************)
(* Discovery collaborator (ScanManager) and whitelist callbacks            *)
(***************************************************************************)
\* flow f is inside a radio driver call when the flows are at p
InDriver(f, p) ==
    IF f = "fwd"
    THEN p[f] \in {"standby0", "transmit", "standby", "startReceive"}
    ELSE p[f] \in {"receive", "transmit", "standby", "startReceive"}

Other(f) == IF f = "fwd" THEN "recv" ELSE "fwd"

\* the radio modes a driver call of flow f may leave when it sets `mode`:
\* rf is not protected, so the commands of a call that returns while the
\* other flow is inside the driver may be torn, and the call may take effect
\* or leave the mode as it was
RadioAfter(f, mode) == IF InDriver(Other(f), pc) THEN {mode, radio} ELSE {mode}

SetTargetAddr ==
    /\ \E t \in {NoTarget, [has |-> TRUE, addr |-> DEV_ADDR]} : target' = t
    /\ scanFresh' = (scanFresh /\ target' = target)
    /\ UNCHANGED <<pureVars, bootVars, fwdCall>>
    /\ UNCHANGED <<device, keyVars, evtBit, radio, pc, txVars, rdata, hmVars, cntVars>>

\* variant: a cycle that finds no match keeps the cached device
ScanResultSticky(t, n, found) ==
    IF t.has /\ found THEN [has |-> TRUE, addr |-> t.addr, name |-> n] ELSE device

\* the cached device after a scan cycle: the match on the target, or nothing
ScanResult(t, n, found) ==
    IF t.has /\ found THEN [has |-> TRUE, addr |-> t.addr, name |-> n] ELSE NoDevice

ScanCycle ==
    /\ \E n \in NameSamples, found \in BOOLEAN :
         device' = ScanResult(target, n, found)
    /\ scanFresh' = TRUE
    /\ UNCHANGED <<pureVars, bootVars, fwdCall>>
    /\ UNCHANGED <<target, keyVars, evtBit, radio, pc, txVars, rdata, hmVars, cntVars>>

(***************************************************************************)
(* Radio interrupt and receive worker                                      *)
(***************************************************************************)
\* xEventGroupSetBitsFromISR(evt_grp, RecvEvt, &task_woken)
\* variant: the signal is dropped unless the worker is blocked in the wait
BitsAfterSetIfWaiting(bit) == bit \/ pc["recv"] = "wait"

BitsAfterSet(bit) == TRUE

PacketReceivedISR ==
    /\ sigCount < MaxSignals
    /\ evtBit' = BitsAfterSet(evtBit)
    /\ sigCount' = sigCount + 1
    /\ sigsSinceWake' = sigsSinceWake + 1
    /\ UNCHANGED <<pureVars, bootVars, fwdCall>>
    /\ UNCHANGED <<scanVars, keyVars, radio, pc, txVars, rdata, hmVars,
                   drainCount, handleCount>>

\* xEventGroupWaitBits(evt_grp, RecvEvt, pdTRUE, pdFALSE, portMAX_DELAY)
\* variant: xClearOnExit is pdFALSE
BitsAfterWaitNoClear(bit) == bit

BitsAfterWait(bit) == FALSE

RecvWait ==
    /\ pc["recv"] = "wait"
    /\ evtBit
    /\ evtBit' = BitsAfterWait(evtBit)
    /\ pc' = [pc EXCEPT !["recv"] = "receive"]
    /\ drainCount' = drainCount + 1
    /\ sigsSinceWake' = 0
    /\ UNCHANGED <<pureVars, bootVars, fwdCall>>
    /\ UNCHANGED <<scanVars, keyVars, radio, txVars, rdata, hmVars, sigCount, handleCount>>

RecvReceive ==
    /\ pc["recv"] = "receive"
    /\ \E f \in FrameSamples : rdata' = f
    /\ pc' = [pc EXCEPT !["recv"] = "handle"]
    /\ radio' \in RadioAfter("recv", radio)
    /\ UNCHANGED <<pureVars, bootVars, fwdCall>>
    /\ UNCHANGED <<scanVars, keyVars, evtBit, txVars, hmVars, cntVars>>

RecvHandle ==
    /\ pc["recv"] = "handle"
    /\ \E magic \in (IF Len(rdata) >= 1 THEN {rdata[1]} ELSE MagicSamples) :
         LET e == handle_message_cb(handle_message_callbacks, rdata, magic,
                                    name_map_key, nvs_key, device) IN
         /\ hmMagic' = e.magic
         /\ hmKey0' = name_map_key
         /\ hmNvs0' = nvs_key
         /\ hmDev' = e.dev
         /\ hmSent' = e.sent
         /\ name_map_key' = e.key
         /\ nvs_key' = e.nvs
         /\ lastSetKey' = IF Len(rdata) >= 2 /\ rdata[1] = set_name_map_key_magic
                          THEN [has |-> TRUE, key |-> rdata[2]]
                          ELSE lastSetKey
         /\ IF e.sent # <<>>
            THEN /\ pc' = [pc EXCEPT !["recv"] = "transmit"]
                 /\ txbuf' = [txbuf EXCEPT !["recv"] = e.sent[1]]
                 /\ txerr' = [txerr EXCEPT !["recv"] = "none"]
                 /\ txlog' = [txlog EXCEPT !["recv"] = <<>>]
            ELSE /\ pc' = [pc EXCEPT !["recv"] = "ret"]
                 /\ UNCHANGED txVars
    /\ handleCount' = handleCount + 1
    /\ UNCHANGED <<pureVars, bootVars, fwdCall>>
    /\ UNCHANGED <<scanVars, evtBit, radio, rdata, sigCount, drainCount, sigsSinceWake>>

RecvLoop ==
    /\ pc["recv"] = "ret"
    /\ pc' = [pc EXCEPT !["recv"] = "wait"]
    /\ rdata' = <<>>
    /\ hmMagic' = -1
    /\ hmKey0' = 0
    /\ hmDev' = NoDevice
    /\ hmNvs0' = NoKey
    /\ hmSent' = <<>>
    /\ txbuf' = [txbuf EXCEPT !["recv"] = <<>>]
    /\ txerr' = [txerr EXCEPT !["recv"] = "none"]
    /\ txlog' = [txlog EXCEPT !["recv"] = <<>>]
    /\ UNCHANGED <<pureVars, bootVars, fwdCall>>
    /\ UNCHANGED <<scanVars, keyVars, evtBit, radio, cntVars>>

(***************************************************************************)
(* tryTransmit, run by either flow                                         *)
(***************************************************************************)
\* variant: a failed transmit is tried again
AfterTransmitRetry(err) == IF err = "ok" THEN "standby" ELSE "transmit"

AfterTransmit(err) == "standby"

TxReturn(f) == IF f = "recv" THEN "ret" ELSE "mirror"

TxTransmit(f) ==
    /\ pc[f] = "transmit"
    /\ \E err \in TxResults :
         /\ txerr' = [txerr EXCEPT ![f] = err]
         /\ pc' = [pc EXCEPT ![f] = AfterTransmit(err)]
    /\ txlog' = [txlog EXCEPT ![f] = Append(@, "transmit")]
    /\ radio' \in RadioAfter(f, "tx")
    /\ UNCHANGED <<pureVars, bootVars, fwdCall>>
    /\ UNCHANGED <<scanVars, keyVars, evtBit, txbuf, rdata, hmVars, cntVars>>

TxStandby(f) ==
    /\ pc[f] = "standby"
    /\ pc' = [pc EXCEPT ![f] = "startReceive"]
    /\ txlog' = [txlog EXCEPT ![f] = Append(@, "standby")]
    /\ radio' \in RadioAfter(f, "standby")
    /\ UNCHANGED <<pureVars, bootVars, fwdCall>>
    /\ UNCHANGED <<scanVars, keyVars, evtBit, txbuf, txerr, rdata, hmVars, cntVars>>

TxStartReceive(f) ==
    /\ pc[f] = "startReceive"
    /\ pc' = [pc EXCEPT ![f] = TxReturn(f)]
    /\ txlog' = [txlog EXCEPT ![f] = Append(@, "startReceive")]
    /\ radio' \in RadioAfter(f, "rx")
    /\ UNCHANGED <<pureVars, bootVars, fwdCall>>
    /\ UNCHANGED <<scanVars, keyVars, evtBit, txbuf, txerr, rdata, hmVars, cntVars>>

(***************************************************************************)
(* scan_manager.on_data: the forwarding flow                               *)
(***************************************************************************)
le16dec(lo, hi) == lo + 256 * hi

\* the heart rate taken from the payload; junk stands for data[2] read past
\* the end of a 2-byte payload
HeartRateOf(data, junk) ==
    LET hr == IF data[1] % 2 = 0
              THEN data[2]
              ELSE le16dec(data[2], IF Len(data) >= 3 THEN data[3] ELSE junk)
    IN  IF hr > HR_CAP THEN HR_CAP ELSE hr

\* the payload indices on_data reads: the whole payload for the log, then
\* data[0], data[1] and, through le16dec(data + 1), data[2]
ReadsOf(data) ==
    (0 .. Len(data) - 1) \cup
    (IF Len(data) < 2 THEN {}
     ELSE IF data[1] % 2 = 0 THEN {0, 1} ELSE {0, 1, 2})

OnData ==
    /\ pc["fwd"] = "idle"
    /\ device.has
    /\ \E data \in PayloadSamples, junk \in JunkSamples :
         /\ fwdCall' = [data |-> data, key |-> name_map_key, reads |-> ReadsOf(data)]
         /\ IF Len(data) < 2
            THEN /\ pc' = [pc EXCEPT !["fwd"] = "return"]
                 /\ UNCHANGED txVars
            ELSE LET buf == hr_data_marshal([key |-> name_map_key,
                                             hr |-> HeartRateOf(data, junk)], HR_BUF_SIZE)
                 IN  IF buf = <<>>
                     THEN /\ pc' = [pc EXCEPT !["fwd"] = "return"]
                          /\ UNCHANGED txVars
                     ELSE /\ pc' = [pc EXCEPT !["fwd"] = "standby0"]
                          /\ txbuf' = [txbuf EXCEPT !["fwd"] = buf]
                          /\ UNCHANGED <<txerr, txlog>>
    /\ UNCHANGED <<pureVars, bootVars>>
    /\ UNCHANGED <<scanVars, keyVars, evtBit, radio, rdata, hmVars, cntVars>>

FwdStandby ==
    /\ pc["fwd"] = "standby0"
    /\ pc' = [pc EXCEPT !["fwd"] = "transmit"]
    /\ txerr' = [txerr EXCEPT !["fwd"] = "none"]
    /\ txlog' = [txlog EXCEPT !["fwd"] = <<>>]
    /\ radio' \in RadioAfter("fwd", "standby")
    /\ fwdCall' = NoCall
    /\ UNCHANGED <<pureVars, bootVars>>
    /\ UNCHANGED <<scanVars, keyVars, evtBit, txbuf, rdata, hmVars, cntVars>>

FwdMirror ==
    /\ pc["fwd"] = "mirror"
    /\ pc' = [pc EXCEPT !["fwd"] = "idle"]
    /\ txbuf' = [txbuf EXCEPT !["fwd"] = <<>>]
    /\ txerr' = [txerr EXCEPT !["fwd"] = "none"]
    /\ txlog' = [txlog EXCEPT !["fwd"] = <<>>]
    /\ UNCHANGED <<pureVars, bootVars, fwdCall>>
    /\ UNCHANGED <<scanVars, keyVars, evtBit, radio, rdata, hmVars, cntVars>>

\* on_data returns early: bad data size, or marshal failed
FwdReturn ==
    /\ pc["fwd"] = "return"
    /\ pc' = [pc EXCEPT !["fwd"] = "idle"]
    /\ fwdCall' = NoCall
    /\ UNCHANGED <<pureVars, bootVars>>
    /\ UNCHANGED <<scanVars, keyVars, evtBit, radio, txVars, rdata, hmVars, cntVars>>

Next ==
    \/ SetTargetAddr
    \/ ScanCycle
    \/ PacketReceivedISR
    \/ RecvWait
    \/ RecvReceive
    \/ RecvHandle
    \/ RecvLoop
    \/ \E f \in Flows : TxTransmit(f)
    \/ \E f \in Flows : TxStandby(f)
    \/ \E f \in Flows : TxStartReceive(f)
    \/ OnData
    \/ FwdStandby
    \/ FwdMirror
    \/ FwdReturn

Spec == Init /\ [][Next]_vars

(***************************************************************************)
(* The receive worker under a fair scheduler: the worker is scheduled      *)
(* whenever it can run and every radio call it makes returns; nothing is   *)
(* assumed about when the interrupt fires                                  *)
(***************************************************************************)
LiveNext ==
    \/ PacketReceivedISR
    \/ RecvWait
    \/ RecvReceive
    \/ RecvHandle
    \/ RecvLoop
    \/ TxTransmit("recv")
    \/ TxStandby("recv")
    \/ TxStartReceive("recv")

LiveSpec ==
    /\ Init
    /\ [][LiveNext]_vars
    /\ WF_vars(RecvWait)
    /\ WF_vars(RecvReceive)
    /\ WF_vars(RecvHandle)
    /\ WF_vars(RecvLoop)
    /\ WF_vars(TxTransmit("recv"))
    /\ WF_vars(TxStandby("recv"))
    /\ WF_vars(TxStartReceive("recv"))

(***************************************************************************)
(* The codec and the dispatcher exercised on their own: one input, then    *)
(* the calls applied to it, the node itself staying in its initial state   *)
(***************************************************************************)
nodeVars == <<name_map_key, nvs_key, target, device, evtBit, radio, pc, txbuf,
              txerr, txlog, rdata, hmMagic, hmKey0, hmDev, hmNvs0, hmSent,
              sigCount, drainCount, handleCount, sigsSinceWake, lastSetKey,
              bpc, nvs_addr, has_addr, boot_addr, halt, bootErr, setTargetCalled,
              fwdCall, scanFresh>>

DispatchInputs ==
    [cbs : SUBSET Callbacks, data : FrameSamples, key : KeySamples,
     dev : {NoDevice, [has |-> TRUE, addr |-> DEV_ADDR, name |-> <<72, 82>>]}]

PureInit ==
    /\ nvs_key = NoKey
    /\ name_map_key = 0
    /\ target = NoTarget
    /\ device = NoDevice
    /\ evtBit = FALSE
    /\ radio = "rx"
    /\ pc = [f \in Flows |-> IF f = "recv" THEN "wait" ELSE "idle"]
    /\ txbuf = [f \in Flows |-> <<>>]
    /\ txerr = [f \in Flows |-> "none"]
    /\ txlog = [f \in Flows |-> <<>>]
    /\ rdata = <<>>
    /\ hmMagic = -1
    /\ hmKey0 = 0
    /\ hmDev = NoDevice
    /\ hmNvs0 = NoKey
    /\ hmSent = <<>>
    /\ sigCount = 0
    /\ drainCount = 0
    /\ handleCount = 0
    /\ sigsSinceWake = 0
    /\ lastSetKey = NoKey
    /\ bpc = "running"
    /\ nvs_addr = NoTarget
    /\ has_addr = FALSE
    /\ boot_addr = ZeroAddr
    /\ halt = "none"
    /\ bootErr = {}
    /\ setTargetCalled = FALSE
    /\ fwdCall = NoCall
    /\ scanFresh = TRUE
    /\ cOut = <<>>
    /\ \/ cpc = "hr_msg" /\ cIn \in [key : Byte, hr : Byte]
       \/ cpc = "buf" /\ cIn \in BufSamples
       \/ cpc = "disp" /\ cIn \in DispatchInputs

\* marshal through hr_data and through hr_lora_msg
HrMarshal ==
    /\ cpc = "hr_msg"
    /\ cOut' = [direct |-> hr_data_marshal(cIn, HR_BUF_SIZE),
                tagged |-> hr_lora_msg_marshal(Tagged("hr_data", cIn), HR_BUF_SIZE)]
    /\ cpc' = "hr_bytes"
    /\ UNCHANGED <<cIn, nodeVars>>

HrUnmarshal ==
    /\ cpc = "hr_bytes"
    /\ cOut' = [direct |-> cOut.direct, tagged |-> cOut.tagged,
                dmsg |-> hr_data_unmarshal(cOut.direct),
                tmsg |-> hr_lora_msg_unmarshal(cOut.tagged)]
    /\ cpc' = "hr_decoded"
    /\ UNCHANGED <<cIn, nodeVars>>

\* marshal what was decoded again
HrRemarshal ==
    /\ cpc = "hr_decoded"
    /\ cOut.dmsg.ok
    /\ cOut.tmsg.ok
    /\ cOut' = [direct |-> cOut.direct, tagged |-> cOut.tagged,
                dmsg |-> cOut.dmsg, tmsg |-> cOut.tmsg,
                dagain |-> hr_data_marshal(cOut.dmsg, HR_BUF_SIZE),
                tagain |-> hr_lora_msg_marshal(Tagged(cOut.tmsg.kind, cOut.tmsg.val),
                                               HR_BUF_SIZE)]
    /\ cpc' = "hr_done"
    /\ UNCHANGED <<cIn, nodeVars>>

BufUnmarshal ==
    /\ cpc = "buf"
    /\ cOut' = hr_lora_msg_unmarshal(cIn)
    /\ cpc' = "buf_done"
    /\ UNCHANGED <<cIn, nodeVars>>

Dispatch ==
    /\ cpc = "disp"
    /\ \E magic \in (IF Len(cIn.data) >= 1 THEN {cIn.data[1]} ELSE MagicSamples) :
         cOut' = handle_message_cb(cIn.cbs, cIn.data, magic, cIn.key,
                                   [has |-> TRUE, key |-> cIn.key], cIn.dev)
    /\ cpc' = "disp_done"
    /\ UNCHANGED <<cIn, nodeVars>>

PureNext ==
    \/ HrMarshal
    \/ HrUnmarshal
    \/ HrRemarshal
    \/ BufUnmarshal
    \/ Dispatch

PureSpec == PureInit /\ [][PureNext]_vars

(***************************************************************************)
(* app_main: the boot sequence, one step per call that can fail or that    *)
(* changes the state above                                                 *)
(***************************************************************************)
\* what no boot step changes
bootFrame == <<nvs_key, nvs_addr, device, evtBit, txbuf, txerr, txlog, rdata, hmVars,
               cntVars, lastSetKey, pureVars, fwdCall, scanFresh>>

BootInit ==
    /\ nvs_key \in {NoKey} \cup {[has |-> TRUE, key |-> k] : k \in KeySamples}
    /\ nvs_addr \in {NoTarget, [has |-> TRUE, addr |-> DEV_ADDR],
                     [has |-> TRUE, addr |-> OTHER_ADDR]}
    /\ name_map_key = 0
    /\ target = NoTarget
    /\ device = NoDevice
    /\ evtBit = FALSE
    /\ radio = "off"
    /\ pc = [f \in Flows |-> "off"]
    /\ txbuf = [f \in Flows |-> <<>>]
    /\ txerr = [f \in Flows |-> "none"]
    /\ txlog = [f \in Flows |-> <<>>]
    /\ rdata = <<>>
    /\ hmMagic = -1
    /\ hmKey0 = 0
    /\ hmDev = NoDevice
    /\ hmNvs0 = NoKey
    /\ hmSent = <<>>
    /\ sigCount = 0
    /\ drainCount = 0
    /\ handleCount = 0
    /\ sigsSinceWake = 0
    /\ lastSetKey = NoKey
    /\ cpc = "off"
    /\ cIn = <<>>
    /\ cOut = <<>>
    /\ bpc = "nvs_init"
    /\ has_addr = FALSE
    /\ boot_addr = ZeroAddr
    /\ halt = "none"
    /\ bootErr = {}
    /\ setTargetCalled = FALSE
    /\ fwdCall = NoCall
    /\ scanFresh = TRUE

\* variant: every error of a boot step is given to ESP_ERROR_CHECK
FatalStepAny(step) == TRUE

\* the boot steps whose error stops the process: ESP_ERROR_CHECK after
\* nvs_init, esp_restart after rf.begin
FatalStep(step) == step \in {"nvs_init", "rf_begin"}

\* a boot step reports an error
BootFail(step, next) ==
    /\ bootErr' = bootErr \cup {step}
    /\ IF FatalStep(step)
       THEN bpc' = "halted" /\ halt' = step
       ELSE bpc' = next /\ halt' = halt

BootNvsInit ==
    /\ bpc = "nvs_init"
    /\ \/ bpc' = "get_addr" /\ UNCHANGED <<halt, bootErr>>
       \/ BootFail("nvs_init", "get_addr")
    /\ UNCHANGED <<name_map_key, target, radio, pc, has_addr, boot_addr,
                   setTargetCalled, bootFrame>>

\* app_nvs::get_addr: an absent value is an error, a stored one may be unreadable
BootGetAddr ==
    /\ bpc = "get_addr"
    /\ \/ /\ nvs_addr.has
          /\ bpc' = "get_key"
          /\ has_addr' = TRUE
          /\ boot_addr' = nvs_addr.addr
          /\ UNCHANGED <<halt, bootErr>>
       \/ /\ BootFail("get_addr", "get_key")
          /\ UNCHANGED <<has_addr, boot_addr>>
    /\ UNCHANGED <<name_map_key, target, radio, pc, setTargetCalled, bootFrame>>

BootGetKey ==
    /\ bpc = "get_key"
    /\ \/ /\ nvs_key.has
          /\ bpc' = "rf_begin"
          /\ name_map_key' = nvs_key.key
          /\ UNCHANGED <<halt, bootErr>>
       \/ /\ BootFail("get_key", "rf_begin")
          /\ UNCHANGED name_map_key
    /\ UNCHANGED <<target, radio, pc, has_addr, boot_addr, setTargetCalled, bootFrame>>

BootRfBegin ==
    /\ bpc = "rf_begin"
    /\ \/ bpc' = "standby" /\ radio' = "standby" /\ UNCHANGED <<halt, bootErr>>
       \/ BootFail("rf_begin", "standby") /\ UNCHANGED radio
    /\ UNCHANGED <<name_map_key, target, pc, has_addr, boot_addr, setTargetCalled,
                   bootFrame>>

BootStandby ==
    /\ bpc = "standby"
    /\ bpc' = "startReceive"
    /\ radio' = "standby"
    /\ UNCHANGED <<name_map_key, target, pc, has_addr, boot_addr, halt, bootErr,
                   setTargetCalled, bootFrame>>

BootStartReceive ==
    /\ bpc = "startReceive"
    /\ bpc' = "set_target"
    /\ radio' = "rx"
    /\ UNCHANGED <<name_map_key, target, pc, has_addr, boot_addr, halt, bootErr,
                   setTargetCalled, bootFrame>>

\* variant: set_target_addr is called whether or not an address was read
BootTargetAlways(has, addr) == [has |-> TRUE, addr |-> addr]

\* the target after `if (has_addr) set_target_addr(make_optional(addr))`
BootTarget(has, addr) == IF has THEN [has |-> TRUE, addr |-> addr] ELSE NoTarget

BootSetTarget ==
    /\ bpc = "set_target"
    /\ bpc' = "start_scan"
    /\ target' = BootTarget(has_addr, boot_addr)
    /\ setTargetCalled' = target'.has
    /\ UNCHANGED <<name_map_key, radio, pc, has_addr, boot_addr, halt, bootErr,
                   bootFrame>>

BootStartScan ==
    /\ bpc = "start_scan"
    /\ bpc' = "create_task"
    /\ pc' = [pc EXCEPT !["fwd"] = "idle"]
    /\ UNCHANGED <<name_map_key, target, radio, has_addr, boot_addr, halt, bootErr,
                   setTargetCalled, bootFrame>>

BootCreateTask ==
    /\ bpc = "create_task"
    /\ bpc' = "running"
    /\ pc' = [pc EXCEPT !["recv"] = "wait"]
    /\ UNCHANGED <<name_map_key, target, radio, has_addr, boot_addr, halt, bootErr,
                   setTargetCalled, bootFrame>>

BootNext ==
    \/ BootNvsInit
    \/ BootGetAddr
    \/ BootGetKey
    \/ BootRfBegin
    \/ BootStandby
    \/ BootStartReceive
    \/ BootSetTarget
    \/ BootStartScan
    \/ BootCreateTask

BootSpec == BootInit /\ [][BootNext]_vars

(***************************************************************************)
(* Properties                                                              *)
(***************************************************************************)
\* handle_message has run on rdata and the worker has not looped back yet
Handled == hmMagic >= 0

\* rdata is a QueryByAddress frame that decodes
IsQueryFrame ==
    /\ Len(rdata) >= 1 + BLE_ADDR_SIZE
    /\ rdata[1] = query_device_by_mac_magic

QueryAddr == SubSeq(rdata, 2, 1 + BLE_ADDR_SIZE)

IsMatchingQuery ==
    /\ IsQueryFrame
    /\ (QueryAddr = broadcast_addr \/ QueryAddr = MY_ADDR)

IsSetKeyFrame ==
    /\ Len(rdata) >= 2
    /\ rdata[1] = set_name_map_key_magic

TxSequence == <<"transmit", "standby", "startReceive">>

InTryTransmit(f) == pc[f] \in {"transmit", "standby", "startReceive"}

\* the number of rf.transmit calls made for the frame handle_message sent
TransmitCalls(log) == Cardinality({i \in 1..Len(log) : log[i] = "transmit"})

\* C1: a QueryByAddress that decodes and is addressed to broadcast or to the
\* node itself makes handle_message send exactly one QueryByAddressResponse,
\* with the node's own address as responder and the in-memory Name-Map Key
\* of that moment as key.
C1_MatchingQueryAnswered ==
    (Handled /\ IsMatchingQuery) =>
        /\ Len(hmSent) = 1
        /\ LET r == query_device_by_mac_response_unmarshal(hmSent[1]) IN
               /\ r.ok
               /\ r.repeater_addr = MY_ADDR
               /\ r.key = hmKey0
        /\ txbuf["recv"] = hmSent[1]
        /\ (pc["recv"] = "ret" => TransmitCalls(txlog["recv"]) = 1)

C1_Witness ==
    /\ pc["recv"] = "ret"
    /\ rdata = <<query_device_by_mac_magic>> \o broadcast_addr
    /\ hmKey0 = 5
    /\ Len(hmSent) = 1
    /\ query_device_by_mac_response_unmarshal(hmSent[1]).key = 5

\* C2: a QueryByAddress addressed neither to broadcast nor to the node makes
\* handle_message send nothing and leaves the in-memory Name-Map Key and the
\* durable store as they were.
C2_ForeignQueryDropped ==
    (Handled /\ IsQueryFrame /\ ~IsMatchingQuery) =>
        /\ hmSent = <<>>
        /\ pc["recv"] = "ret"
        /\ txlog["recv"] = <<>>
        /\ name_map_key = hmKey0
        /\ nvs_key = hmNvs0

C2_Witness ==
    /\ pc["recv"] = "ret"
    /\ rdata = <<query_device_by_mac_magic>> \o OTHER_ADDR
    /\ hmSent = <<>>

\* C3: the response to a matching QueryByAddress carries the device that
\* get_device() returned: present with its address and name when there is
\* one, absent when there is none.
C3_ResponseCarriesDevice ==
    (Handled /\ IsMatchingQuery /\ Len(hmSent) = 1) =>
        LET r == query_device_by_mac_response_unmarshal(hmSent[1]) IN
            /\ r.ok
            /\ r.device = hmDev

\* C4: once a well-formed SetNameMapKey{K} has been handled, the in-memory
\* Name-Map Key and the durable store hold K, every response sent until the
\* next SetNameMapKey carries K, and the SetNameMapKey itself sends nothing.
C4_SetKeyUpdatesBoth ==
    /\ lastSetKey.has =>
          /\ name_map_key = lastSetKey.key
          /\ nvs_key = [has |-> TRUE, key |-> lastSetKey.key]
          /\ \A i \in 1..Len(hmSent) :
                query_device_by_mac_response_unmarshal(hmSent[i]).key = lastSetKey.key
    /\ (Handled /\ IsSetKeyFrame) =>
          /\ lastSetKey = [has |-> TRUE, key |-> rdata[2]]
          /\ hmSent = <<>>
          /\ pc["recv"] = "ret"
          /\ txlog["recv"] = <<>>

C4_Witness ==
    /\ pc["recv"] = "ret"
    /\ lastSetKey = [has |-> TRUE, key |-> 255]
    /\ IsMatchingQuery
    /\ Len(hmSent) = 1
    /\ query_device_by_mac_response_unmarshal(hmSent[1]).key = 255

\* C5: a frame that starts with the SetNameMapKey discriminant and is shorter
\* than 2 bytes leaves the in-memory Name-Map Key and the durable store
\* unchanged and sends nothing.
C5_ShortSetKeyIgnored ==
    (Handled /\ hmMagic = set_name_map_key_magic /\ Len(rdata) < 2) =>
        /\ name_map_key = hmKey0
        /\ nvs_key = hmNvs0
        /\ hmSent = <<>>
        /\ pc["recv"] = "ret"
        /\ txlog["recv"] = <<>>

C5_Witness ==
    /\ pc["recv"] = "ret"
    /\ rdata = <<set_name_map_key_magic>>
    /\ hmMagic = set_name_map_key_magic
    /\ nvs_key = [has |-> TRUE, key |-> 5]

InDriverFwd == pc["fwd"] \in {"standby0", "transmit", "standby", "startReceive"}

InDriverRecv == pc["recv"] \in {"receive", "transmit", "standby", "startReceive"}

\* C6: the forwarding flow and the receive worker are never inside a radio
\* driver call at the same time.
C6_DriverSingleOwner == ~(InDriverFwd /\ InDriverRecv)

\* C7: every wake of the worker clears the frame-arrived bit, drains one
\* frame and calls handle_message once on it; the interrupts raised between
\* two waits coalesce into one wake, so drains never outnumber interrupts.
C7_OneDrainPerWake ==
    /\ drainCount <= sigCount
    /\ evtBit = (sigsSinceWake > 0)
    /\ sigCount - sigsSinceWake >= drainCount
    /\ (pc["recv"] \in {"receive", "handle"} => handleCount + 1 = drainCount)
    /\ (pc["recv"] \notin {"receive", "handle"} => handleCount = drainCount)
    /\ (pc["recv"] = "handle" => ~Handled)

C7_Witness ==
    /\ pc["recv"] = "wait"
    /\ sigCount = 2
    /\ drainCount = 1
    /\ handleCount = 1
    /\ ~evtBit

\* C8: a drained frame of length 0 is discarded before dispatch:
\* handle_message is not called on it, no byte is read as a discriminant,
\* nothing is sent and no state changes.
C8_EmptyFrameNotDispatched ==
    (pc["recv"] \notin {"wait", "receive"} /\ Len(rdata) = 0) =>
        /\ hmMagic = -1
        /\ hmSent = <<>>
        /\ pc["recv"] = "handle"

\* C9: a frame whose first byte is the HeartRate or QueryByAddressResponse
\* discriminant, or no discriminant at all, makes handle_message send nothing
\* and leaves the in-memory Name-Map Key and the durable store unchanged.
C9_OtherFramesNoOp ==
    (Handled /\ Len(rdata) >= 1
       /\ rdata[1] \notin {query_device_by_mac_magic, set_name_map_key_magic}) =>
        /\ hmSent = <<>>
        /\ pc["recv"] = "ret"
        /\ txlog["recv"] = <<>>
        /\ name_map_key = hmKey0
        /\ nvs_key = hmNvs0

C9_Witness ==
    /\ pc["recv"] = "ret"
    /\ rdata = <<hr_data_magic, 5, 72>>
    /\ name_map_key = 255

\* C10: a call of tryTransmit calls rf.transmit once and then, whatever the
\* result, rf.standby and then rf.startReceive before it returns; it never
\* transmits the payload again.
C10_TransmitOnceThenListen ==
    \A f \in Flows :
        /\ (pc[f] = "transmit" => txlog[f] = <<>>)
        /\ (pc[f] = "standby" => txlog[f] = SubSeq(TxSequence, 1, 1) /\ txerr[f] \in TxResults)
        /\ (pc[f] = "startReceive" => txlog[f] = SubSeq(TxSequence, 1, 2))
        /\ ((pc[f] = TxReturn(f) /\ txbuf[f] # <<>>) =>
               txlog[f] = TxSequence /\ txerr[f] \in TxResults)

C10_Witness ==
    /\ pc["fwd"] = "mirror"
    /\ txerr["fwd"] = "timeout"
    /\ txlog["fwd"] = TxSequence
    /\ txbuf["fwd"] # <<>>

\* C11: a HeartRate message survives marshal then unmarshal, through hr_data
\* and through hr_lora_msg, for every key and hr in 0..255; the frame is
\* [0x63, key, hr], it decodes to HeartRate{key, hr} and encodes again to the
\* same 3 bytes.
C11_HeartRateRoundTrip ==
    /\ cpc \in {"hr_bytes", "hr_decoded", "hr_done"} =>
          /\ cOut.direct = <<99, cIn.key, cIn.hr>>
          /\ cOut.tagged = <<99, cIn.key, cIn.hr>>
    /\ cpc \in {"hr_decoded", "hr_done"} =>
          /\ cOut.dmsg.ok
          /\ cOut.dmsg.key = cIn.key
          /\ cOut.dmsg.hr = cIn.hr
          /\ cOut.tmsg.ok
          /\ cOut.tmsg.kind = "hr_data"
          /\ cOut.tmsg.val.key = cIn.key
          /\ cOut.tmsg.val.hr = cIn.hr
    /\ cpc = "hr_done" =>
          /\ cOut.dagain = cOut.direct
          /\ cOut.tagain = cOut.tagged

C11_Witness ==
    /\ cpc = "hr_done"
    /\ cIn = [key |-> 5, hr |-> 72]
    /\ cOut.direct = <<99, 5, 72>>
    /\ cOut.tmsg.val.hr = 72
    /\ cOut.tagain = <<99, 5, 72>>

\* the smallest frame of the kind a first byte stands for (0: no kind)
MinFrameSize(b) ==
    CASE b = hr_data_magic -> 3
      [] b = query_device_by_mac_magic -> 1 + BLE_ADDR_SIZE
      [] b = query_device_by_mac_response_magic -> 1 + BLE_ADDR_SIZE + 1 + 1
      [] b = set_name_map_key_magic -> 2
      [] OTHER -> 0

KindOfMagic(b) ==
    CASE b = hr_data_magic -> "hr_data"
      [] b = query_device_by_mac_magic -> "query_device_by_mac"
      [] b = query_device_by_mac_response_magic -> "query_device_by_mac_response"
      [] b = set_name_map_key_magic -> "set_name_map_key"
      [] OTHER -> "none"

\* C12: hr_lora_msg::unmarshal returns a message only for a buffer of at
\* least 1 byte whose first byte is one of the four discriminants and that is
\* at least as long as that kind's smallest frame, and the message is of the
\* kind of the first byte; for every other buffer it fails.
C12_TaggedDecodeWellFormed ==
    (cpc = "buf_done" /\ cOut.ok) =>
        /\ Len(cIn) >= 1
        /\ KindOfMagic(cIn[1]) # "none"
        /\ Len(cIn) >= MinFrameSize(cIn[1])
        /\ cOut.kind = KindOfMagic(cIn[1])

C12_Witness ==
    /\ cpc = "buf_done"
    /\ cIn = <<hr_data_magic, 5>>
    /\ ~cOut.ok

\* C16: with any of the four callbacks empty handle_message does nothing:
\* it calls no callback, sends nothing and writes neither the in-memory
\* Name-Map Key nor the durable store.
C16_EmptyCallbackNoOp ==
    (cpc = "disp_done" /\ cIn.cbs # Callbacks) =>
        /\ cOut.calls = {}
        /\ cOut.sent = <<>>
        /\ cOut.key = cIn.key
        /\ cOut.nvs = [has |-> TRUE, key |-> cIn.key]

C16_Witness ==
    /\ cpc = "disp_done"
    /\ cIn.cbs = Callbacks \ {"get_device"}
    /\ cIn.data = <<set_name_map_key_magic, 5>>
    /\ cIn.key = 0
    /\ cOut.key = 0

\* C13: a failure of the long-range radio bring-up is the only thing that
\* halts or restarts the process; every other error is logged and execution
\* continues.
C13_OnlyRadioFailureHalts ==
    /\ (bpc = "halted" => halt = "rf_begin")
    /\ (halt # "none" => halt = "rf_begin")

\* app_main has done everything that precedes start_scanning_task
BootConfigured == bpc \in {"start_scan", "create_task", "running"}

\* C14: when app_main starts scanning and the receive worker, the target is
\* unset and set_target_addr was not called if the persisted address was
\* absent or unreadable, and is the persisted address otherwise; the
\* in-memory key is 0 if the persisted key was absent or unreadable, and the
\* persisted key otherwise.
C14_BootDefaults ==
    BootConfigured =>
        /\ (~nvs_addr.has => "get_addr" \in bootErr)
        /\ (~nvs_key.has => "get_key" \in bootErr)
        /\ ("get_addr" \in bootErr => target = NoTarget /\ ~setTargetCalled)
        /\ ("get_addr" \notin bootErr => target = nvs_addr /\ setTargetCalled)
        /\ ("get_key" \in bootErr => name_map_key = 0)
        /\ ("get_key" \notin bootErr => name_map_key = nvs_key.key)
        /\ (bpc = "start_scan" => pc = [f \in Flows |-> "off"])

C14_Witness ==
    /\ bpc = "running"
    /\ nvs_addr = [has |-> TRUE, addr |-> DEV_ADDR]
    /\ "get_addr" \in bootErr
    /\ target = NoTarget
    /\ nvs_key = [has |-> TRUE, key |-> 5]
    /\ name_map_key = 5

FwdForwarding == pc["fwd"] = "standby0"

\* the value the payload states: byte 1, or bytes 1 and 2 little-endian when
\* bit 0 of byte 0 is set (a byte the payload does not have counts as 0)
StatedValue(data) ==
    IF data[1] % 2 = 0 THEN data[2]
    ELSE data[2] + 256 * (IF Len(data) >= 3 THEN data[3] ELSE 0)

\* C19: an on_data payload of size >= 2 gives exactly the frame
\* [0x63, key, min(v, 255)], v being the value the payload states; a payload
\* of size < 2 gives no frame.
C19_HeartRateFrame ==
    /\ FwdForwarding =>
          /\ Len(fwdCall.data) >= 2
          /\ txbuf["fwd"] = <<99, fwdCall.key,
                              IF StatedValue(fwdCall.data) > 255 THEN 255
                              ELSE StatedValue(fwdCall.data)>>
    /\ pc["fwd"] = "return" =>
          /\ Len(fwdCall.data) < 2
          /\ txbuf["fwd"] = <<>>
          /\ txlog["fwd"] = <<>>

\* C20: on_data reads no payload index at or beyond size.
C20_ReadsInBounds == \A i \in fwdCall.reads : i < Len(fwdCall.data)

\* neither flow is inside on_data's transmit section or tryTransmit
Quiescent ==
    /\ pc["fwd"] \notin {"standby0", "transmit", "standby", "startReceive"}
    /\ pc["recv"] \notin {"transmit", "standby", "startReceive"}

====
